---------------------------- MODULE Spec2Model ----------------------------
(***************************************************************************)
(* Model of the prompt-injection scanner                                   *)
(* (src/prompt-injection-scanner/scripts/scan.py).                         *)
(*                                                                         *)
(* Text is a sequence of characters, each character a one-character        *)
(* string.  The rule table PATTERNS holds the source's 28 triples          *)
(* verbatim; re_compile gives the parse tree Python's re module builds for *)
(* each pattern string, and MatchNode/MatchSeq run it the way the          *)
(* backtracking matcher does (leftmost match, greedy repeats, alternatives *)
(* left to right) under re.IGNORECASE.  Characters are ASCII: str.lower()  *)
(* maps A-Z to a-z, \s is ASCII whitespace and \d is 0-9.                  *)
(*                                                                         *)
(* Five specifications share the variables:                                *)
(*   Spec        one run of main(): arguments, input acquisition,          *)
(*               scan_text, format_output, exit status;                    *)
(*   SpecMatch   scan_text called by one caller on every input text, one   *)
(*               rule of the table per step;                               *)
(*   SpecScan    scan_text called by independent callers whose rule-loop   *)
(*               iterations interleave, on the rule table as loaded;       *)
(*   SpecScore   the scoring lines of scan_text applied to growing         *)
(*               findings lists of every severity;                         *)
(*   SpecPreview format_output applied to texts around the preview limit.  *)
(***************************************************************************)
EXTENDS Integers, Sequences, FiniteSets, TLC

VARIABLES
  argv,        \* parsed command line: [file, text, json, isatty]
  supplied,    \* the characters the selected input source holds
  pc,          \* position of main(): start, acquired, scanned, printed, done
  text,        \* main's local `text`
  findings,    \* list of Finding returned by scan_text
  risk_score,  \* score returned by scan_text
  output,      \* what format_output returned and main printed
  exit_code,   \* process exit status
  exc,         \* uncaught exception that ended main, or "None"
  patterns,    \* the module-level list PATTERNS as the callers see it
  frames,      \* each caller's scan_text activation
  heap         \* the list objects the activations append to

vars == <<argv, supplied, pc, text, findings, risk_score, output, exit_code,
          exc, patterns, frames, heap>>

-----------------------------------------------------------------------------
(* Characters and str.lower() *)

DIGITS == <<"0", "1", "2", "3", "4", "5", "6", "7", "8", "9">>

ASCII_LOWERCASE ==
  <<"a", "b", "c", "d", "e", "f", "g", "h", "i", "j", "k", "l", "m",
    "n", "o", "p", "q", "r", "s", "t", "u", "v", "w", "x", "y", "z">>

ASCII_UPPERCASE ==
  <<"A", "B", "C", "D", "E", "F", "G", "H", "I", "J", "K", "L", "M",
    "N", "O", "P", "Q", "R", "S", "T", "U", "V", "W", "X", "Y", "Z">>

SeqRange(s) == {s[i] : i \in DOMAIN s}

IndexIn(s, c) == CHOOSE i \in DOMAIN s : s[i] = c

\* the lower-case letter of each upper-case letter, and the reverse
LowerOf ==
  [c \in SeqRange(ASCII_UPPERCASE) |-> ASCII_LOWERCASE[IndexIn(ASCII_UPPERCASE, c)]]

UpperOf ==
  [c \in SeqRange(ASCII_LOWERCASE) |-> ASCII_UPPERCASE[IndexIn(ASCII_LOWERCASE, c)]]

IsUpper(c) == c \in DOMAIN LowerOf

IsLower(c) == c \in DOMAIN UpperOf

\* str.lower() on one character
CharLower(c) == IF IsUpper(c) THEN LowerOf[c] ELSE c

\* str.upper() on one character
CharUpper(c) == IF IsLower(c) THEN UpperOf[c] ELSE c

\* str.swapcase() on one character
CharSwap(c) == IF IsUpper(c) THEN LowerOf[c] ELSE CharUpper(c)

\* the mutated lower(): the text is scanned as given
LowerKeepsCase(s) == s

\* text.lower() (scan_text, line 99)
Lower(s) == [i \in DOMAIN s |-> CharLower(s[i])]

Upper(s) == [i \in DOMAIN s |-> CharUpper(s[i])]

SwapCase(s) == [i \in DOMAIN s |-> CharSwap(s[i])]

-----------------------------------------------------------------------------
(* Regular expressions: the parse tree and the backtracking matcher *)

\* The grave accent, which a TLA+ string cannot hold; pattern strings spell
\* it {U+0060}.
GRAVE == "U+0060"

\* \s and \d
CATEGORY_SPACE == {" ", "\t", "\n", "\r", "\f"}

CATEGORY_DIGIT == SeqRange(DIGITS)

\* a character range such as 0-9, a-f, A-F
Range(lo, hi) ==
  LET row == CHOOSE r \in {DIGITS, ASCII_LOWERCASE, ASCII_UPPERCASE} :
               lo \in SeqRange(r)
  IN  {row[i] : i \in IndexIn(row, lo)..IndexIn(row, hi)}

Literal(c) == [op |-> "LITERAL", c |-> c]

Lits(cs) == [i \in DOMAIN cs |-> Literal(cs[i])]

In(set) == [op |-> "IN", set |-> set]

Repeat(min, max, item) ==
  [op |-> "MAX_REPEAT", min |-> min, max |-> max, bounded |-> TRUE,
   item |-> item]

\* a repeat with no upper limit: +, *
RepeatFrom(min, item) ==
  [op |-> "MAX_REPEAT", min |-> min, max |-> min, bounded |-> FALSE,
   item |-> item]

SubPattern(item) == [op |-> "SUBPATTERN", item |-> item]

Branch(alts) == [op |-> "BRANCH", alts |-> alts]

\* what compiling a pattern string gives: its parse tree, or re.error raised
Compiled(tree) == [error |-> FALSE, tree |-> tree]

re_error == [error |-> TRUE, tree |-> <<>>]


\* a pattern character against a text character under re.IGNORECASE
CharMatches(c, ch) == CharLower(c) = CharLower(ch)

\* a character class against a text character under re.IGNORECASE
ClassMatches(set, ch) == \E c \in set : CharMatches(c, ch)

RECURSIVE MatchNode(_, _, _), MatchSeq(_, _, _, _), MatchRepeat(_, _, _, _),
          MatchEach(_, _, _, _, _), MatchAlts(_, _, _, _),
          RepeatEach(_, _, _, _, _, _)

\* The positions at which a match of items[j..] that starts at i can end, in
\* the order the backtracking matcher tries them.
MatchSeq(items, j, s, i) ==
  IF j > Len(items) THEN <<i>>
  ELSE MatchEach(items, j, s, MatchNode(items[j], s, i), 1)

\* continue the sequence from every end of items[j], in order
MatchEach(items, j, s, ends, n) ==
  IF n > Len(ends) THEN <<>>
  ELSE MatchSeq(items, j + 1, s, ends[n]) \o MatchEach(items, j, s, ends, n + 1)

MatchAlts(alts, k, s, i) ==
  IF k > Len(alts) THEN <<>>
  ELSE MatchSeq(alts[k], 1, s, i) \o MatchAlts(alts, k + 1, s, i)

\* greedy: one more repetition first, then stopping here
MatchRepeat(node, count, s, i) ==
  LET more == IF node.bounded /\ count >= node.max THEN <<>>
              ELSE RepeatEach(node, count, s, i, MatchSeq(node.item, 1, s, i), 1)
      stop == IF count >= node.min THEN <<i>> ELSE <<>>
  IN  more \o stop

\* a repetition that consumed nothing is not repeated again
RepeatEach(node, count, s, i, ends, n) ==
  IF n > Len(ends) THEN <<>>
  ELSE (IF ends[n] > i THEN MatchRepeat(node, count + 1, s, ends[n]) ELSE <<>>)
         \o RepeatEach(node, count, s, i, ends, n + 1)

MatchNode(node, s, i) ==
  CASE node.op = "LITERAL" ->
         IF i <= Len(s) /\ CharMatches(node.c, s[i]) THEN <<i + 1>> ELSE <<>>
    [] node.op = "IN" ->
         IF i <= Len(s) /\ ClassMatches(node.set, s[i]) THEN <<i + 1>> ELSE <<>>
    [] node.op = "SUBPATTERN" -> MatchSeq(node.item, 1, s, i)
    [] node.op = "BRANCH" -> MatchAlts(node.alts, 1, s, i)
    [] node.op = "MAX_REPEAT" -> MatchRepeat(node, 0, s, i)

-----------------------------------------------------------------------------
(* The rule table (scan.py lines 27-94) *)

PATTERNS ==
  <<
    <<"ignore\\s+(all\\s+)?(previous|prior|above|earlier)\\s+(instructions?|prompts?|rules?|context)",
      "Direct instruction override", "critical">>,
    <<"disregard\\s+(all\\s+)?(previous|prior|above|earlier|your)\\s+(instructions?|prompts?|programming)",
      "Direct instruction override", "critical">>,
    <<"forget\\s+(everything|all|what)\\s+(you|i|we)\\s+(know|said|told)",
      "Memory/context manipulation", "high">>,
    <<"you\\s+are\\s+(now|actually|really)\\s+(a|an|the)\\s+",
      "Role reassignment attempt", "high">>,
    <<"pretend\\s+(to\\s+be|you\\'?re?)\\s+",
      "Role play injection", "medium">>,
    <<"act\\s+as\\s+(if\\s+)?(you\\'?re?|a|an)\\s+",
      "Role play injection", "medium">>,
    <<"from\\s+now\\s+on[,\\s]+(you|your)",
      "Behavioral override", "high">>,
    <<"(show|tell|give|reveal|display|print|output)\\s+(me\\s+)?(your|the)\\s+(system\\s+)?(prompt|instructions?|rules?|programming)",
      "System prompt extraction", "high">>,
    <<"what\\s+(are|is)\\s+your\\s+(system\\s+)?(prompt|instructions?|rules?|programming)",
      "System prompt extraction", "medium">>,
    <<"repeat\\s+(your|the)\\s+(system\\s+)?(prompt|instructions?)",
      "System prompt extraction", "high">>,
    <<"<\\/?system>",
      "System tag injection", "critical">>,
    <<"\\[SYSTEM\\]|\\[\\/SYSTEM\\]",
      "System bracket injection", "critical">>,
    <<"{U+0060}{U+0060}{U+0060}system|{U+0060}{U+0060}{U+0060}prompt",
      "Code block system injection", "high">>,
    <<"<\\|im_start\\|>|<\\|im_end\\|>",
      "ChatML delimiter injection", "critical">>,
    <<"Human:|Assistant:|System:",
      "Role delimiter injection", "high">>,
    <<"(DAN|jailbreak|unlock|liberate|free)\\s*(mode|prompt)?",
      "Known jailbreak terminology", "high">>,
    <<"developer\\s+mode\\s+(enabled|activated|on)",
      "Developer mode jailbreak", "critical">>,
    <<"(enable|activate|enter)\\s+(god|admin|root|sudo)\\s+mode",
      "Privilege escalation attempt", "critical">>,
    <<"base64|rot13|hex\\s*encode|decode\\s+this",
      "Encoding-based evasion", "medium">>,
    <<"\\\\x[0-9a-fA-F]{2}",
      "Hex escape sequences", "medium">>,
    <<"&#\\d+;|&#x[0-9a-fA-F]+;",
      "HTML entity encoding", "medium">>,
    <<"(new|fresh|clean)\\s+(conversation|context|session)",
      "Context reset attempt", "medium">>,
    <<"end\\s+of\\s+(system\\s+)?(prompt|instructions?)",
      "End-of-prompt marker injection", "high">>,
    <<"---+\\s*(begin|start|new)\\s*(prompt|instructions?)?",
      "Delimiter-based injection", "high">>,
    <<"(hypothetically|theoretically|in\\s+fiction|for\\s+a\\s+story)",
      "Hypothetical framing (context-dependent)", "low">>,
    <<"if\\s+you\\s+(were|could|had)\\s+(not\\s+)?(ethical|limited|restricted)",
      "Restriction bypass framing", "medium">>,
    <<"(first|step\\s+1)[:\\s]+(say|respond|output)\\s+(yes|ok|agree)",
      "Multi-step manipulation setup", "medium">>,
    <<"confirm\\s+(you\\s+)?(understand|will\\s+comply|agree)",
      "Compliance extraction", "low">>
  >>

\* The parse tree re builds for a pattern string (re.IGNORECASE set);
\* re_error for a string that is no regular expression.
sre_parse(pattern) ==
  CASE
       pattern = "ignore\\s+(all\\s+)?(previous|prior|above|earlier)\\s+(instructions?|prompts?|rules?|context)" ->
         Compiled(Lits(<<"i", "g", "n", "o", "r", "e">>) \o <<RepeatFrom(1, <<In(CATEGORY_SPACE)>>)>> \o <<Repeat(0, 1, <<SubPattern(Lits(<<"a", "l", "l">>) \o <<RepeatFrom(1, <<In(CATEGORY_SPACE)>>)>>)>>)>> \o <<SubPattern(<<Branch(<<Lits(<<"p", "r", "e", "v", "i", "o", "u", "s">>), Lits(<<"p", "r", "i", "o", "r">>), Lits(<<"a", "b", "o", "v", "e">>), Lits(<<"e", "a", "r", "l", "i", "e", "r">>)>>)>>)>> \o <<RepeatFrom(1, <<In(CATEGORY_SPACE)>>)>> \o <<SubPattern(<<Branch(<<Lits(<<"i", "n", "s", "t", "r", "u", "c", "t", "i", "o", "n">>) \o <<Repeat(0, 1, Lits(<<"s">>))>>, Lits(<<"p", "r", "o", "m", "p", "t">>) \o <<Repeat(0, 1, Lits(<<"s">>))>>, Lits(<<"r", "u", "l", "e">>) \o <<Repeat(0, 1, Lits(<<"s">>))>>, Lits(<<"c", "o", "n", "t", "e", "x", "t">>)>>)>>)>>)
    [] pattern = "disregard\\s+(all\\s+)?(previous|prior|above|earlier|your)\\s+(instructions?|prompts?|programming)" ->
         Compiled(Lits(<<"d", "i", "s", "r", "e", "g", "a", "r", "d">>) \o <<RepeatFrom(1, <<In(CATEGORY_SPACE)>>)>> \o <<Repeat(0, 1, <<SubPattern(Lits(<<"a", "l", "l">>) \o <<RepeatFrom(1, <<In(CATEGORY_SPACE)>>)>>)>>)>> \o <<SubPattern(<<Branch(<<Lits(<<"p", "r", "e", "v", "i", "o", "u", "s">>), Lits(<<"p", "r", "i", "o", "r">>), Lits(<<"a", "b", "o", "v", "e">>), Lits(<<"e", "a", "r", "l", "i", "e", "r">>), Lits(<<"y", "o", "u", "r">>)>>)>>)>> \o <<RepeatFrom(1, <<In(CATEGORY_SPACE)>>)>> \o <<SubPattern(<<Branch(<<Lits(<<"i", "n", "s", "t", "r", "u", "c", "t", "i", "o", "n">>) \o <<Repeat(0, 1, Lits(<<"s">>))>>, Lits(<<"p", "r", "o", "m", "p", "t">>) \o <<Repeat(0, 1, Lits(<<"s">>))>>, Lits(<<"p", "r", "o", "g", "r", "a", "m", "m", "i", "n", "g">>)>>)>>)>>)
    [] pattern = "forget\\s+(everything|all|what)\\s+(you|i|we)\\s+(know|said|told)" ->
         Compiled(Lits(<<"f", "o", "r", "g", "e", "t">>) \o <<RepeatFrom(1, <<In(CATEGORY_SPACE)>>)>> \o <<SubPattern(<<Branch(<<Lits(<<"e", "v", "e", "r", "y", "t", "h", "i", "n", "g">>), Lits(<<"a", "l", "l">>), Lits(<<"w", "h", "a", "t">>)>>)>>)>> \o <<RepeatFrom(1, <<In(CATEGORY_SPACE)>>)>> \o <<SubPattern(<<Branch(<<Lits(<<"y", "o", "u">>), Lits(<<"i">>), Lits(<<"w", "e">>)>>)>>)>> \o <<RepeatFrom(1, <<In(CATEGORY_SPACE)>>)>> \o <<SubPattern(<<Branch(<<Lits(<<"k", "n", "o", "w">>), Lits(<<"s", "a", "i", "d">>), Lits(<<"t", "o", "l", "d">>)>>)>>)>>)
    [] pattern = "you\\s+are\\s+(now|actually|really)\\s+(a|an|the)\\s+" ->
         Compiled(Lits(<<"y", "o", "u">>) \o <<RepeatFrom(1, <<In(CATEGORY_SPACE)>>)>> \o Lits(<<"a", "r", "e">>) \o <<RepeatFrom(1, <<In(CATEGORY_SPACE)>>)>> \o <<SubPattern(<<Branch(<<Lits(<<"n", "o", "w">>), Lits(<<"a", "c", "t", "u", "a", "l", "l", "y">>), Lits(<<"r", "e", "a", "l", "l", "y">>)>>)>>)>> \o <<RepeatFrom(1, <<In(CATEGORY_SPACE)>>)>> \o <<SubPattern(<<Branch(<<Lits(<<"a">>), Lits(<<"a", "n">>), Lits(<<"t", "h", "e">>)>>)>>)>> \o <<RepeatFrom(1, <<In(CATEGORY_SPACE)>>)>>)
    [] pattern = "pretend\\s+(to\\s+be|you\\'?re?)\\s+" ->
         Compiled(Lits(<<"p", "r", "e", "t", "e", "n", "d">>) \o <<RepeatFrom(1, <<In(CATEGORY_SPACE)>>)>> \o <<SubPattern(<<Branch(<<Lits(<<"t", "o">>) \o <<RepeatFrom(1, <<In(CATEGORY_SPACE)>>)>> \o Lits(<<"b", "e">>), Lits(<<"y", "o", "u">>) \o <<Repeat(0, 1, Lits(<<"'">>))>> \o Lits(<<"r">>) \o <<Repeat(0, 1, Lits(<<"e">>))>>>>)>>)>> \o <<RepeatFrom(1, <<In(CATEGORY_SPACE)>>)>>)
    [] pattern = "act\\s+as\\s+(if\\s+)?(you\\'?re?|a|an)\\s+" ->
         Compiled(Lits(<<"a", "c", "t">>) \o <<RepeatFrom(1, <<In(CATEGORY_SPACE)>>)>> \o Lits(<<"a", "s">>) \o <<RepeatFrom(1, <<In(CATEGORY_SPACE)>>)>> \o <<Repeat(0, 1, <<SubPattern(Lits(<<"i", "f">>) \o <<RepeatFrom(1, <<In(CATEGORY_SPACE)>>)>>)>>)>> \o <<SubPattern(<<Branch(<<Lits(<<"y", "o", "u">>) \o <<Repeat(0, 1, Lits(<<"'">>))>> \o Lits(<<"r">>) \o <<Repeat(0, 1, Lits(<<"e">>))>>, Lits(<<"a">>), Lits(<<"a", "n">>)>>)>>)>> \o <<RepeatFrom(1, <<In(CATEGORY_SPACE)>>)>>)
    [] pattern = "from\\s+now\\s+on[,\\s]+(you|your)" ->
         Compiled(Lits(<<"f", "r", "o", "m">>) \o <<RepeatFrom(1, <<In(CATEGORY_SPACE)>>)>> \o Lits(<<"n", "o", "w">>) \o <<RepeatFrom(1, <<In(CATEGORY_SPACE)>>)>> \o Lits(<<"o", "n">>) \o <<RepeatFrom(1, <<In({","} \cup CATEGORY_SPACE)>>)>> \o <<SubPattern(Lits(<<"y", "o", "u">>) \o <<Branch(<<<<>>, Lits(<<"r">>)>>)>>)>>)
    [] pattern = "(show|tell|give|reveal|display|print|output)\\s+(me\\s+)?(your|the)\\s+(system\\s+)?(prompt|instructions?|rules?|programming)" ->
         Compiled(<<SubPattern(<<Branch(<<Lits(<<"s", "h", "o", "w">>), Lits(<<"t", "e", "l", "l">>), Lits(<<"g", "i", "v", "e">>), Lits(<<"r", "e", "v", "e", "a", "l">>), Lits(<<"d", "i", "s", "p", "l", "a", "y">>), Lits(<<"p", "r", "i", "n", "t">>), Lits(<<"o", "u", "t", "p", "u", "t">>)>>)>>)>> \o <<RepeatFrom(1, <<In(CATEGORY_SPACE)>>)>> \o <<Repeat(0, 1, <<SubPattern(Lits(<<"m", "e">>) \o <<RepeatFrom(1, <<In(CATEGORY_SPACE)>>)>>)>>)>> \o <<SubPattern(<<Branch(<<Lits(<<"y", "o", "u", "r">>), Lits(<<"t", "h", "e">>)>>)>>)>> \o <<RepeatFrom(1, <<In(CATEGORY_SPACE)>>)>> \o <<Repeat(0, 1, <<SubPattern(Lits(<<"s", "y", "s", "t", "e", "m">>) \o <<RepeatFrom(1, <<In(CATEGORY_SPACE)>>)>>)>>)>> \o <<SubPattern(<<Branch(<<Lits(<<"p", "r", "o", "m", "p", "t">>), Lits(<<"i", "n", "s", "t", "r", "u", "c", "t", "i", "o", "n">>) \o <<Repeat(0, 1, Lits(<<"s">>))>>, Lits(<<"r", "u", "l", "e">>) \o <<Repeat(0, 1, Lits(<<"s">>))>>, Lits(<<"p", "r", "o", "g", "r", "a", "m", "m", "i", "n", "g">>)>>)>>)>>)
    [] pattern = "what\\s+(are|is)\\s+your\\s+(system\\s+)?(prompt|instructions?|rules?|programming)" ->
         Compiled(Lits(<<"w", "h", "a", "t">>) \o <<RepeatFrom(1, <<In(CATEGORY_SPACE)>>)>> \o <<SubPattern(<<Branch(<<Lits(<<"a", "r", "e">>), Lits(<<"i", "s">>)>>)>>)>> \o <<RepeatFrom(1, <<In(CATEGORY_SPACE)>>)>> \o Lits(<<"y", "o", "u", "r">>) \o <<RepeatFrom(1, <<In(CATEGORY_SPACE)>>)>> \o <<Repeat(0, 1, <<SubPattern(Lits(<<"s", "y", "s", "t", "e", "m">>) \o <<RepeatFrom(1, <<In(CATEGORY_SPACE)>>)>>)>>)>> \o <<SubPattern(<<Branch(<<Lits(<<"p", "r", "o", "m", "p", "t">>), Lits(<<"i", "n", "s", "t", "r", "u", "c", "t", "i", "o", "n">>) \o <<Repeat(0, 1, Lits(<<"s">>))>>, Lits(<<"r", "u", "l", "e">>) \o <<Repeat(0, 1, Lits(<<"s">>))>>, Lits(<<"p", "r", "o", "g", "r", "a", "m", "m", "i", "n", "g">>)>>)>>)>>)
    [] pattern = "repeat\\s+(your|the)\\s+(system\\s+)?(prompt|instructions?)" ->
         Compiled(Lits(<<"r", "e", "p", "e", "a", "t">>) \o <<RepeatFrom(1, <<In(CATEGORY_SPACE)>>)>> \o <<SubPattern(<<Branch(<<Lits(<<"y", "o", "u", "r">>), Lits(<<"t", "h", "e">>)>>)>>)>> \o <<RepeatFrom(1, <<In(CATEGORY_SPACE)>>)>> \o <<Repeat(0, 1, <<SubPattern(Lits(<<"s", "y", "s", "t", "e", "m">>) \o <<RepeatFrom(1, <<In(CATEGORY_SPACE)>>)>>)>>)>> \o <<SubPattern(<<Branch(<<Lits(<<"p", "r", "o", "m", "p", "t">>), Lits(<<"i", "n", "s", "t", "r", "u", "c", "t", "i", "o", "n">>) \o <<Repeat(0, 1, Lits(<<"s">>))>>>>)>>)>>)
    [] pattern = "<\\/?system>" ->
         Compiled(Lits(<<"<">>) \o <<Repeat(0, 1, Lits(<<"/">>))>> \o Lits(<<"s", "y", "s", "t", "e", "m", ">">>))
    [] pattern = "\\[SYSTEM\\]|\\[\\/SYSTEM\\]" ->
         Compiled(Lits(<<"[">>) \o <<Branch(<<Lits(<<"S", "Y", "S", "T", "E", "M", "]">>), Lits(<<"/", "S", "Y", "S", "T", "E", "M", "]">>)>>)>>)
    [] pattern = "{U+0060}{U+0060}{U+0060}system|{U+0060}{U+0060}{U+0060}prompt" ->
         Compiled(Lits(<<GRAVE, GRAVE, GRAVE>>) \o <<Branch(<<Lits(<<"s", "y", "s", "t", "e", "m">>), Lits(<<"p", "r", "o", "m", "p", "t">>)>>)>>)
    [] pattern = "<\\|im_start\\|>|<\\|im_end\\|>" ->
         Compiled(Lits(<<"<", "|", "i", "m", "_">>) \o <<Branch(<<Lits(<<"s", "t", "a", "r", "t", "|", ">">>), Lits(<<"e", "n", "d", "|", ">">>)>>)>>)
    [] pattern = "Human:|Assistant:|System:" ->
         Compiled(<<Branch(<<Lits(<<"H", "u", "m", "a", "n", ":">>), Lits(<<"A", "s", "s", "i", "s", "t", "a", "n", "t", ":">>), Lits(<<"S", "y", "s", "t", "e", "m", ":">>)>>)>>)
    [] pattern = "(DAN|jailbreak|unlock|liberate|free)\\s*(mode|prompt)?" ->
         Compiled(<<SubPattern(<<Branch(<<Lits(<<"D", "A", "N">>), Lits(<<"j", "a", "i", "l", "b", "r", "e", "a", "k">>), Lits(<<"u", "n", "l", "o", "c", "k">>), Lits(<<"l", "i", "b", "e", "r", "a", "t", "e">>), Lits(<<"f", "r", "e", "e">>)>>)>>)>> \o <<RepeatFrom(0, <<In(CATEGORY_SPACE)>>)>> \o <<Repeat(0, 1, <<SubPattern(<<Branch(<<Lits(<<"m", "o", "d", "e">>), Lits(<<"p", "r", "o", "m", "p", "t">>)>>)>>)>>)>>)
    [] pattern = "developer\\s+mode\\s+(enabled|activated|on)" ->
         Compiled(Lits(<<"d", "e", "v", "e", "l", "o", "p", "e", "r">>) \o <<RepeatFrom(1, <<In(CATEGORY_SPACE)>>)>> \o Lits(<<"m", "o", "d", "e">>) \o <<RepeatFrom(1, <<In(CATEGORY_SPACE)>>)>> \o <<SubPattern(<<Branch(<<Lits(<<"e", "n", "a", "b", "l", "e", "d">>), Lits(<<"a", "c", "t", "i", "v", "a", "t", "e", "d">>), Lits(<<"o", "n">>)>>)>>)>>)
    [] pattern = "(enable|activate|enter)\\s+(god|admin|root|sudo)\\s+mode" ->
         Compiled(<<SubPattern(<<Branch(<<Lits(<<"e", "n", "a", "b", "l", "e">>), Lits(<<"a", "c", "t", "i", "v", "a", "t", "e">>), Lits(<<"e", "n", "t", "e", "r">>)>>)>>)>> \o <<RepeatFrom(1, <<In(CATEGORY_SPACE)>>)>> \o <<SubPattern(<<Branch(<<Lits(<<"g", "o", "d">>), Lits(<<"a", "d", "m", "i", "n">>), Lits(<<"r", "o", "o", "t">>), Lits(<<"s", "u", "d", "o">>)>>)>>)>> \o <<RepeatFrom(1, <<In(CATEGORY_SPACE)>>)>> \o Lits(<<"m", "o", "d", "e">>))
    [] pattern = "base64|rot13|hex\\s*encode|decode\\s+this" ->
         Compiled(<<Branch(<<Lits(<<"b", "a", "s", "e", "6", "4">>), Lits(<<"r", "o", "t", "1", "3">>), Lits(<<"h", "e", "x">>) \o <<RepeatFrom(0, <<In(CATEGORY_SPACE)>>)>> \o Lits(<<"e", "n", "c", "o", "d", "e">>), Lits(<<"d", "e", "c", "o", "d", "e">>) \o <<RepeatFrom(1, <<In(CATEGORY_SPACE)>>)>> \o Lits(<<"t", "h", "i", "s">>)>>)>>)
    [] pattern = "\\\\x[0-9a-fA-F]{2}" ->
         Compiled(Lits(<<"\\", "x">>) \o <<Repeat(2, 2, <<In(Range("0", "9") \cup Range("a", "f") \cup Range("A", "F"))>>)>>)
    [] pattern = "&#\\d+;|&#x[0-9a-fA-F]+;" ->
         Compiled(Lits(<<"&", "#">>) \o <<Branch(<<<<RepeatFrom(1, <<In(CATEGORY_DIGIT)>>)>> \o Lits(<<";">>), Lits(<<"x">>) \o <<RepeatFrom(1, <<In(Range("0", "9") \cup Range("a", "f") \cup Range("A", "F"))>>)>> \o Lits(<<";">>)>>)>>)
    [] pattern = "(new|fresh|clean)\\s+(conversation|context|session)" ->
         Compiled(<<SubPattern(<<Branch(<<Lits(<<"n", "e", "w">>), Lits(<<"f", "r", "e", "s", "h">>), Lits(<<"c", "l", "e", "a", "n">>)>>)>>)>> \o <<RepeatFrom(1, <<In(CATEGORY_SPACE)>>)>> \o <<SubPattern(<<Branch(<<Lits(<<"c", "o", "n", "v", "e", "r", "s", "a", "t", "i", "o", "n">>), Lits(<<"c", "o", "n", "t", "e", "x", "t">>), Lits(<<"s", "e", "s", "s", "i", "o", "n">>)>>)>>)>>)
    [] pattern = "end\\s+of\\s+(system\\s+)?(prompt|instructions?)" ->
         Compiled(Lits(<<"e", "n", "d">>) \o <<RepeatFrom(1, <<In(CATEGORY_SPACE)>>)>> \o Lits(<<"o", "f">>) \o <<RepeatFrom(1, <<In(CATEGORY_SPACE)>>)>> \o <<Repeat(0, 1, <<SubPattern(Lits(<<"s", "y", "s", "t", "e", "m">>) \o <<RepeatFrom(1, <<In(CATEGORY_SPACE)>>)>>)>>)>> \o <<SubPattern(<<Branch(<<Lits(<<"p", "r", "o", "m", "p", "t">>), Lits(<<"i", "n", "s", "t", "r", "u", "c", "t", "i", "o", "n">>) \o <<Repeat(0, 1, Lits(<<"s">>))>>>>)>>)>>)
    [] pattern = "---+\\s*(begin|start|new)\\s*(prompt|instructions?)?" ->
         Compiled(Lits(<<"-", "-">>) \o <<RepeatFrom(1, Lits(<<"-">>))>> \o <<RepeatFrom(0, <<In(CATEGORY_SPACE)>>)>> \o <<SubPattern(<<Branch(<<Lits(<<"b", "e", "g", "i", "n">>), Lits(<<"s", "t", "a", "r", "t">>), Lits(<<"n", "e", "w">>)>>)>>)>> \o <<RepeatFrom(0, <<In(CATEGORY_SPACE)>>)>> \o <<Repeat(0, 1, <<SubPattern(<<Branch(<<Lits(<<"p", "r", "o", "m", "p", "t">>), Lits(<<"i", "n", "s", "t", "r", "u", "c", "t", "i", "o", "n">>) \o <<Repeat(0, 1, Lits(<<"s">>))>>>>)>>)>>)>>)
    [] pattern = "(hypothetically|theoretically|in\\s+fiction|for\\s+a\\s+story)" ->
         Compiled(<<SubPattern(<<Branch(<<Lits(<<"h", "y", "p", "o", "t", "h", "e", "t", "i", "c", "a", "l", "l", "y">>), Lits(<<"t", "h", "e", "o", "r", "e", "t", "i", "c", "a", "l", "l", "y">>), Lits(<<"i", "n">>) \o <<RepeatFrom(1, <<In(CATEGORY_SPACE)>>)>> \o Lits(<<"f", "i", "c", "t", "i", "o", "n">>), Lits(<<"f", "o", "r">>) \o <<RepeatFrom(1, <<In(CATEGORY_SPACE)>>)>> \o Lits(<<"a">>) \o <<RepeatFrom(1, <<In(CATEGORY_SPACE)>>)>> \o Lits(<<"s", "t", "o", "r", "y">>)>>)>>)>>)
    [] pattern = "if\\s+you\\s+(were|could|had)\\s+(not\\s+)?(ethical|limited|restricted)" ->
         Compiled(Lits(<<"i", "f">>) \o <<RepeatFrom(1, <<In(CATEGORY_SPACE)>>)>> \o Lits(<<"y", "o", "u">>) \o <<RepeatFrom(1, <<In(CATEGORY_SPACE)>>)>> \o <<SubPattern(<<Branch(<<Lits(<<"w", "e", "r", "e">>), Lits(<<"c", "o", "u", "l", "d">>), Lits(<<"h", "a", "d">>)>>)>>)>> \o <<RepeatFrom(1, <<In(CATEGORY_SPACE)>>)>> \o <<Repeat(0, 1, <<SubPattern(Lits(<<"n", "o", "t">>) \o <<RepeatFrom(1, <<In(CATEGORY_SPACE)>>)>>)>>)>> \o <<SubPattern(<<Branch(<<Lits(<<"e", "t", "h", "i", "c", "a", "l">>), Lits(<<"l", "i", "m", "i", "t", "e", "d">>), Lits(<<"r", "e", "s", "t", "r", "i", "c", "t", "e", "d">>)>>)>>)>>)
    [] pattern = "(first|step\\s+1)[:\\s]+(say|respond|output)\\s+(yes|ok|agree)" ->
         Compiled(<<SubPattern(<<Branch(<<Lits(<<"f", "i", "r", "s", "t">>), Lits(<<"s", "t", "e", "p">>) \o <<RepeatFrom(1, <<In(CATEGORY_SPACE)>>)>> \o Lits(<<"1">>)>>)>>)>> \o <<RepeatFrom(1, <<In({":"} \cup CATEGORY_SPACE)>>)>> \o <<SubPattern(<<Branch(<<Lits(<<"s", "a", "y">>), Lits(<<"r", "e", "s", "p", "o", "n", "d">>), Lits(<<"o", "u", "t", "p", "u", "t">>)>>)>>)>> \o <<RepeatFrom(1, <<In(CATEGORY_SPACE)>>)>> \o <<SubPattern(<<Branch(<<Lits(<<"y", "e", "s">>), Lits(<<"o", "k">>), Lits(<<"a", "g", "r", "e", "e">>)>>)>>)>>)
    [] pattern = "confirm\\s+(you\\s+)?(understand|will\\s+comply|agree)" ->
         Compiled(Lits(<<"c", "o", "n", "f", "i", "r", "m">>) \o <<RepeatFrom(1, <<In(CATEGORY_SPACE)>>)>> \o <<Repeat(0, 1, <<SubPattern(Lits(<<"y", "o", "u">>) \o <<RepeatFrom(1, <<In(CATEGORY_SPACE)>>)>>)>>)>> \o <<SubPattern(<<Branch(<<Lits(<<"u", "n", "d", "e", "r", "s", "t", "a", "n", "d">>), Lits(<<"w", "i", "l", "l">>) \o <<RepeatFrom(1, <<In(CATEGORY_SPACE)>>)>> \o Lits(<<"c", "o", "m", "p", "l", "y">>), Lits(<<"a", "g", "r", "e", "e">>)>>)>>)>>)
    [] pattern = "pwned" ->
         Compiled(Lits(<<"p", "w", "n", "e", "d">>))
    [] OTHER -> re_error

\* The pattern strings a rule table of the model can hold: the 28 of
\* PATTERNS, one more that compiles and one that does not.
PatternStrings ==
  {PATTERNS[k][1] : k \in DOMAIN PATTERNS} \cup {"pwned", "(pwned"}

\* re's cache of compiled patterns
re_cache == [p \in PatternStrings |-> sre_parse(p)]

\* re.finditer compiles the string it is given when it is called
\* (scan_text, line 102)
re_compile(pattern) == re_cache[pattern]

\* re.search from position pos: the leftmost start at which the pattern
\* matches, 0 when there is none
Search(re, s, pos) ==
  LET starts == {i \in pos..(Len(s) + 1) : MatchSeq(re.tree, 1, s, i) # <<>>}
  IN  IF starts = {} THEN 0
      ELSE CHOOSE i \in starts : \A j \in starts : i <= j

\* re.finditer: the non-overlapping matches, left to right, as spans
\* [start, end) of s.  No pattern of the table matches the empty string;
\* after an empty match the scan moves one character on.
RECURSIVE finditer(_, _, _)
finditer(re, s, pos) ==
  LET start == Search(re, s, pos)
  IN  IF start = 0 THEN <<>>
      ELSE LET end == Head(MatchSeq(re.tree, 1, s, start))
           IN  <<[start |-> start, end |-> end]>>
                 \o finditer(re, s, IF end > start THEN end ELSE start + 1)

\* match.group(0)
Group0(s, span) == SubSeq(s, span.start, span.end - 1)

-----------------------------------------------------------------------------
(* scan_text (lines 96-115) *)

Finding(pattern, description, severity, matched) ==
  [pattern |-> pattern, description |-> description, severity |-> severity,
   matched |-> matched]

\* the inner loop (lines 102-109): one Finding per match of one rule
RuleFindings(rule, text_lower) ==
  LET spans == finditer(re_compile(rule[1]), text_lower, 1)
  IN  [j \in DOMAIN spans |->
         Finding(rule[1], rule[2], rule[3], Group0(text_lower, spans[j]))]

RECURSIVE DropSeen(_, _)
\* the mutated append: a finding already in the list is not added again
DropSeen(acc, new) ==
  IF new = <<>> THEN acc
  ELSE DropSeen(IF \E i \in DOMAIN acc : acc[i] = Head(new)
                THEN acc ELSE Append(acc, Head(new)), Tail(new))

\* findings.append for each match, in order (lines 103-109)
AppendAll(acc, new) == acc \o new

\* the outer loop (line 101) from rule k on
RECURSIVE ScanRules(_, _, _, _)
ScanRules(lib, k, text_lower, acc) ==
  IF k > Len(lib) THEN acc
  ELSE ScanRules(lib, k + 1, text_lower,
                 AppendAll(acc, RuleFindings(lib[k], text_lower)))

\* the mutated weight: a severity outside the table weighs nothing
WeightNoFallback(severity) ==
  CASE severity = "low" -> 5
    [] severity = "medium" -> 15
    [] severity = "high" -> 30
    [] severity = "critical" -> 50
    [] OTHER -> 0

\* severity_weights.get(f.severity, 10) (lines 112-113)
SeverityWeight(severity) ==
  CASE severity = "low" -> 5
    [] severity = "medium" -> 15
    [] severity = "high" -> 30
    [] severity = "critical" -> 50
    [] OTHER -> 10

RECURSIVE SumWeights(_)
SumWeights(fs) ==
  IF fs = <<>> THEN 0 ELSE SeverityWeight(Head(fs).severity) + SumWeights(Tail(fs))

\* the mutated cap: the sum wraps at the ceiling
RiskScoreWraps(fs) == SumWeights(fs) % 101

\* min(100, sum(...)) (line 113)
RiskScore(fs) ==
  IF SumWeights(fs) < 100 THEN SumWeights(fs) ELSE 100

scan_text(lib, t) ==
  LET fs == ScanRules(lib, 1, Lower(t), <<>>)
  IN  [findings |-> fs, risk_score |-> RiskScore(fs)]

-----------------------------------------------------------------------------
(* format_output (lines 117-143) and the exit status of main (168-177) *)

\* the mutated level: the high threshold is exclusive
RiskLevelJsonExclusive(score) ==
  IF score >= 50 THEN "critical"
  ELSE IF score > 30 THEN "high"
  ELSE IF score >= 15 THEN "medium"
  ELSE IF score > 0 THEN "low"
  ELSE "clean"

\* the risk_level of the structured output (line 122)
RiskLevelJson(score) ==
  IF score >= 50 THEN "critical"
  ELSE IF score >= 30 THEN "high"
  ELSE IF score >= 15 THEN "medium"
  ELSE IF score > 0 THEN "low"
  ELSE "clean"

\* the level of the human-readable header (lines 133-136)
RiskLevelText(fs, score) ==
  IF fs = <<>> THEN "CLEAN"
  ELSE IF score >= 50 THEN "CRITICAL"
  ELSE IF score >= 30 THEN "HIGH"
  ELSE IF score >= 15 THEN "MEDIUM"
  ELSE "LOW"

\* f.severity.upper() (line 140)
SeverityUpper(severity) ==
  CASE severity = "low" -> "LOW"
    [] severity = "medium" -> "MEDIUM"
    [] severity = "high" -> "HIGH"
    [] severity = "critical" -> "CRITICAL"
    [] severity = "info" -> "INFO"

\* the length past which the preview is cut (line 130)
PreviewLen == 200

\* the mutated preview: a text of exactly the limit is cut too
TextPreviewInclusive(t) ==
  IF Len(t) >= PreviewLen THEN SubSeq(t, 1, PreviewLen) \o <<".", ".", ".">> ELSE t

\* text[:200] + '...' if len(text) > 200 else text (line 130)
TextPreview(t) ==
  IF Len(t) > PreviewLen THEN SubSeq(t, 1, PreviewLen) \o <<".", ".", ".">> ELSE t

format_output(t, fs, score, as_json) ==
  IF as_json
  THEN [format |-> "json",
        risk_score |-> score,
        risk_level |-> RiskLevelJson(score),
        findings |-> [i \in DOMAIN fs |->
                        [description |-> fs[i].description,
                         severity |-> fs[i].severity,
                         matched |-> fs[i].matched]],
        text_preview |-> TextPreview(t)]
  ELSE IF fs = <<>>
  THEN [format |-> "text", level |-> "CLEAN", score |-> 0, lines |-> <<>>]
  ELSE [format |-> "text", level |-> RiskLevelText(fs, score), score |-> score,
        lines |-> [i \in DOMAIN fs |->
                     [severity |-> SeverityUpper(fs[i].severity),
                      description |-> fs[i].description,
                      matched |-> fs[i].matched]]]

\* the mutated exit status: the low threshold is off by one weight
ExitCodeLowMissed(score) ==
  IF score >= 50 THEN 4
  ELSE IF score >= 30 THEN 3
  ELSE IF score >= 15 THEN 2
  ELSE IF score > 5 THEN 1
  ELSE 0

\* the value main returns after a scan (lines 168-177)
ExitCode(score) ==
  IF score >= 50 THEN 4
  ELSE IF score >= 30 THEN 3
  ELSE IF score >= 15 THEN 2
  ELSE IF score > 0 THEN 1
  ELSE 0

-----------------------------------------------------------------------------
(* Bounds and input sets *)

\* Largest number of fragments concatenated into an input text.
MaxFrags == 2

\* Longest findings list built in SpecScore.
MaxFindings == 4

\* How far past the preview limit the texts of SpecPreview reach.
MaxOver == 3

\* Number of independent callers of scan_text in SpecScan.
NumCallers == 2

\* Fragments the input texts are concatenated from: upper-case and
\* mixed-case spellings of matches of every severity, a fragment two rules
\* match, and a fragment that matches only once joined to another.
Frags ==
  << <<"D", "A", "N">>,
     <<" ", "m", "o", "d", "e">>,
     <<"<", "S", "y", "s", "t", "e", "m", ">">>,
     <<"[", "S", "Y", "S", "T", "E", "M", "]", "H", "u", "m", "a", "n", ":">>,
     <<"b", "a", "s", "e", "6", "4">>,
     <<"I", "n", " ", "F", "i", "c", "t", "i", "o", "n">> >>

RECURSIVE Concat(_, _)
Concat(choice, n) ==
  IF n = 0 THEN <<>> ELSE Concat(choice, n - 1) \o Frags[choice[n]]

Texts ==
  {Concat(choice, n) : choice \in [1..MaxFrags -> DOMAIN Frags], n \in 0..MaxFrags}

\* Texts of every length up to MaxOver past the preview limit, in two
\* mixed-case fillings that no rule matches.
Filler(n, k) == [i \in 1..n |-> IF (i + k) % 2 = 0 THEN "A" ELSE "b"]

PreviewTexts == {Filler(n, k) : n \in 0..(PreviewLen + MaxOver), k \in 1..2}

\* The texts the callers of SpecScan scan: caller c scans TextOf(c).
ScanTexts ==
  << <<"D", "A", "N", "<", "S", "y", "s", "t", "e", "m", ">">>,
     <<"P", "w", "n", "e", "d", " ", "H", "u", "m", "a", "n", ":">> >>

TextOf(c) == ScanTexts[((c - 1) % Len(ScanTexts)) + 1]

\* The severities a Finding can carry: the four of the weight table and one
\* outside it.
Severities == {"low", "medium", "high", "critical", "info"}

\* PATTERNS is a module-level list: what a caller that imports the module
\* finds, or has appended a rule of its own to.  The appended rule compiles
\* or does not.
CustomRule == <<"pwned", "Custom rule", "info">>

MalformedRule == <<"(pwned", "Custom rule", "low">>

Libraries ==
  {PATTERNS, Append(PATTERNS, CustomRule), Append(PATTERNS, MalformedRule)}

Callers == 1..NumCallers

-----------------------------------------------------------------------------
(* Spec: one run of main() (lines 146-181) *)

\* args.file: absent, a path open() fails on, a path it reads.
\* args.text: absent, the empty string, a non-empty string.
\* sys.stdin.isatty(): a terminal, or a pipe or file.
\* The source main consults first decides; the ones after it are left absent.
Argvs ==
  {a \in [file : {"None", "missing", "readable"},
          text : {"None", "empty", "given"},
          json : BOOLEAN,
          isatty : BOOLEAN] :
     /\ a.file # "None" => (a.text = "None" /\ a.isatty)
     /\ a.text = "given" => a.isatty}

NoArgv == [file |-> "None", text |-> "None", json |-> FALSE, isatty |-> TRUE]

NoOutput == [format |-> "none"]

\* the values of main's variables before main assigns them
MainUnset ==
  /\ text = <<>>
  /\ findings = <<>>
  /\ risk_score = 0
  /\ output = NoOutput
  /\ exit_code = -1
  /\ exc = "None"

\* no caller of scan_text other than main
NoCallers ==
  /\ frames = <<>>
  /\ heap = <<>>

Init ==
  /\ argv \in Argvs
  /\ supplied \in Texts
  \* a text argument that is given is not the empty string
  /\ argv.text = "given" => supplied # <<>>
  /\ pc = "start"
  /\ MainUnset
  /\ patterns = PATTERNS
  /\ NoCallers

\* lines 154-156: with open(args.file) as f: text = f.read()
ReadFile ==
  /\ pc = "start"
  /\ argv.file = "readable"
  /\ text' = supplied
  /\ pc' = "acquired"
  /\ UNCHANGED <<argv, supplied, findings, risk_score, output, exit_code, exc,
                 patterns, frames, heap>>

\* line 155: open() raises; nothing catches the exception and the
\* interpreter ends with status 1
OpenFails ==
  /\ pc = "start"
  /\ argv.file = "missing"
  /\ exc' = "FileNotFoundError"
  /\ exit_code' = 1
  /\ pc' = "done"
  /\ UNCHANGED <<argv, supplied, text, findings, risk_score, output, patterns,
                 frames, heap>>

\* lines 157-158: elif args.text
UseTextArg ==
  /\ pc = "start"
  /\ argv.file = "None"
  /\ argv.text = "given"
  /\ text' = supplied
  /\ pc' = "acquired"
  /\ UNCHANGED <<argv, supplied, findings, risk_score, output, exit_code, exc,
                 patterns, frames, heap>>

\* lines 159-160: elif not sys.stdin.isatty()
ReadStdin ==
  /\ pc = "start"
  /\ argv.file = "None"
  /\ argv.text \in {"None", "empty"}
  /\ ~argv.isatty
  /\ text' = supplied
  /\ pc' = "acquired"
  /\ UNCHANGED <<argv, supplied, findings, risk_score, output, exit_code, exc,
                 patterns, frames, heap>>

\* lines 161-163: print the usage line, return 1
Usage ==
  /\ pc = "start"
  /\ argv.file = "None"
  /\ argv.text \in {"None", "empty"}
  /\ argv.isatty
  /\ output' = [format |-> "usage"]
  /\ exit_code' = 1
  /\ pc' = "done"
  /\ UNCHANGED <<argv, supplied, text, findings, risk_score, exc, patterns,
                 frames, heap>>

\* line 165
ScanText ==
  /\ pc = "acquired"
  /\ LET r == scan_text(patterns, text)
     IN  /\ findings' = r.findings
         /\ risk_score' = r.risk_score
  /\ pc' = "scanned"
  /\ UNCHANGED <<argv, supplied, text, output, exit_code, exc, patterns,
                 frames, heap>>

\* line 166
PrintOutput ==
  /\ pc = "scanned"
  /\ output' = format_output(text, findings, risk_score, argv.json)
  /\ pc' = "printed"
  /\ UNCHANGED <<argv, supplied, text, findings, risk_score, exit_code, exc,
                 patterns, frames, heap>>

\* lines 168-177, and sys.exit(main()) at line 181
Exit ==
  /\ pc = "printed"
  /\ exit_code' = ExitCode(risk_score)
  /\ pc' = "done"
  /\ UNCHANGED <<argv, supplied, text, findings, risk_score, output, exc,
                 patterns, frames, heap>>

Next ==
  \/ ReadFile
  \/ OpenFails
  \/ UseTextArg
  \/ ReadStdin
  \/ Usage
  \/ ScanText
  \/ PrintOutput
  \/ Exit

Spec == Init /\ [][Next]_vars

-----------------------------------------------------------------------------
(* SpecPreview: format_output and the exit status on texts whose length is *)
(* around the preview limit, from the point where main has scanned them    *)

InitPreview ==
  /\ argv \in {a \in Argvs : a.file = "readable"}
  /\ supplied \in PreviewTexts
  /\ pc = "scanned"
  /\ text = supplied
  /\ findings = <<>>
  /\ risk_score = 0
  /\ output = NoOutput
  /\ exit_code = -1
  /\ exc = "None"
  /\ patterns = PATTERNS
  /\ NoCallers

NextPreview ==
  \/ PrintOutput
  \/ Exit

SpecPreview == InitPreview /\ [][NextPreview]_vars

-----------------------------------------------------------------------------
(* SpecScore: lines 111-113 of scan_text on findings lists of every        *)
(* severity, one Finding longer at each step                               *)

InitScore ==
  /\ argv = NoArgv
  /\ supplied = <<>>
  /\ pc = "score"
  /\ text = <<>>
  /\ findings = <<>>
  /\ risk_score = RiskScore(findings)
  /\ output = NoOutput
  /\ exit_code = -1
  /\ exc = "None"
  /\ patterns = PATTERNS
  /\ NoCallers

AddFinding(severity) ==
  /\ pc = "score"
  /\ Len(findings) < MaxFindings
  /\ findings' = Append(findings, Finding("", "", severity, <<>>))
  /\ risk_score' = RiskScore(findings')
  /\ UNCHANGED <<argv, supplied, pc, text, output, exit_code, exc, patterns,
                 frames, heap>>

NextScore == \E severity \in Severities : AddFinding(severity)

SpecScore == InitScore /\ [][NextScore]_vars

-----------------------------------------------------------------------------
(* scan_text step by step: each caller's activation runs the rule loop one *)
(* iteration at a time                                                     *)

IdleFrame ==
  [pc |-> "idle", text |-> <<>>, text_lower |-> <<>>, k |-> 0,
   findings |-> <<>>, risk_score |-> 0]

\* the mutated allocation: one list shared by every call, as a module-level
\* or default-argument list would be
ListShared(c) == 1

\* findings = [] (line 98): a list object of the call's own
ListOf(c) == c

MainIdle ==
  /\ argv = NoArgv
  /\ supplied = <<>>
  /\ pc = "imported"
  /\ MainUnset

\* lines 98-99; a caller whose call has returned may call again
Call(c, t) ==
  /\ frames[c].pc \in {"idle", "done"}
  /\ frames' = [frames EXCEPT ![c] =
                  [pc |-> "loop", text |-> t, text_lower |-> Lower(t), k |-> 1,
                   findings |-> <<>>, risk_score |-> 0]]
  /\ heap' = [heap EXCEPT ![ListOf(c)] = <<>>]
  /\ UNCHANGED <<argv, supplied, pc, text, findings, risk_score, output,
                 exit_code, exc, patterns>>

\* lines 101-109: one iteration of the for loop over PATTERNS
Iterate(c) ==
  /\ frames[c].pc = "loop"
  /\ frames[c].k <= Len(patterns)
  /\ ~re_compile(patterns[frames[c].k][1]).error
  /\ heap' = [heap EXCEPT ![ListOf(c)] =
                AppendAll(@, RuleFindings(patterns[frames[c].k],
                                          frames[c].text_lower))]
  /\ frames' = [frames EXCEPT ![c].k = @ + 1]
  /\ UNCHANGED <<argv, supplied, pc, text, findings, risk_score, output,
                 exit_code, exc, patterns>>

\* line 102: re.finditer raises re.error on a pattern that does not
\* compile, and the exception leaves scan_text
Raise(c) ==
  /\ frames[c].pc = "loop"
  /\ frames[c].k <= Len(patterns)
  /\ re_compile(patterns[frames[c].k][1]).error
  /\ frames' = [frames EXCEPT ![c].pc = "raised"]
  /\ UNCHANGED <<argv, supplied, pc, text, findings, risk_score, output,
                 exit_code, exc, patterns, heap>>

\* lines 111-115, after the last rule
Return(c) ==
  /\ frames[c].pc = "loop"
  /\ frames[c].k > Len(patterns)
  /\ frames' = [frames EXCEPT ![c].pc = "done",
                              ![c].findings = heap[ListOf(c)],
                              ![c].risk_score = RiskScore(heap[ListOf(c)])]
  /\ UNCHANGED <<argv, supplied, pc, text, findings, risk_score, output,
                 exit_code, exc, patterns, heap>>

-----------------------------------------------------------------------------
(* SpecMatch: one caller, every input text, the rule table as shipped *)

InitMatch ==
  /\ MainIdle
  /\ patterns = PATTERNS
  /\ frames = [c \in {1} |-> IdleFrame]
  /\ heap = [c \in {1} |-> <<>>]

NextMatch ==
  \/ \E t \in Texts : Call(1, t)
  \/ Iterate(1)
  \/ Return(1)

SpecMatch == InitMatch /\ [][NextMatch]_vars

-----------------------------------------------------------------------------
(* SpecScan: independent callers whose loop iterations interleave, on the  *)
(* rule table as loaded                                                    *)

InitScan ==
  /\ MainIdle
  /\ patterns \in Libraries
  /\ frames = [c \in Callers |-> IdleFrame]
  /\ heap = [c \in Callers |-> <<>>]

NextScan ==
  \E c \in Callers :
    \/ Call(c, TextOf(c))
    \/ Iterate(c)
    \/ Raise(c)
    \/ Return(c)

SpecScan == InitScan /\ [][NextScan]_vars

-----------------------------------------------------------------------------
(* Properties *)

\* main has scanned, printed the result and returned
ScanCompleted == pc = "done" /\ output.format \in {"json", "text"}

\* main has returned without a text to scan
AcquisitionFailed == pc = "done" /\ output.format \notin {"json", "text"}

\* the level a printed result names, in lower case
ReportedLevel(out) ==
  IF out.format = "json" THEN out.risk_level
  ELSE CASE out.level = "CLEAN" -> "clean"
         [] out.level = "LOW" -> "low"
         [] out.level = "MEDIUM" -> "medium"
         [] out.level = "HIGH" -> "high"
         [] out.level = "CRITICAL" -> "critical"

\* the threshold table of the classifier, highest threshold first
ThresholdTable ==
  << [min |-> 50, level |-> "critical", code |-> 4],
     [min |-> 30, level |-> "high", code |-> 3],
     [min |-> 15, level |-> "medium", code |-> 2],
     [min |-> 1, level |-> "low", code |-> 1],
     [min |-> 0, level |-> "clean", code |-> 0] >>

Classify(score) ==
  ThresholdTable[CHOOSE r \in DOMAIN ThresholdTable :
                   /\ score >= ThresholdTable[r].min
                   /\ \A q \in 1..(r - 1) : score < ThresholdTable[q].min]

\* C1: after a scan, the findings list is empty iff risk_score is 0 iff the
\* reported risk level is clean iff the exit code is 0.
C1_EmptyZeroCleanExit0 ==
  ScanCompleted =>
    LET empty == findings = <<>>
        zero == risk_score = 0
        clean == ReportedLevel(output) = "clean"
        exit0 == exit_code = 0
    IN  (empty <=> zero) /\ (zero <=> clean) /\ (clean <=> exit0)

\* a scan with one low-severity finding: none of the four is on the clean
\* side
C1_Witness ==
  /\ ScanCompleted
  /\ Len(findings) = 1
  /\ risk_score = 5
  /\ ReportedLevel(output) = "low"
  /\ exit_code = 1

\* C2: the level follows the descending threshold table for every score in
\* 0..100, and the structured risk_level, the level of the human-readable
\* header and the exit code of one scan name the same level.
C2_ClassificationAgrees ==
  ScanCompleted =>
    /\ ReportedLevel(output) = Classify(risk_score).level
    /\ exit_code = Classify(risk_score).code
    /\ ReportedLevel(format_output(text, findings, risk_score, TRUE))
         = ReportedLevel(format_output(text, findings, risk_score, FALSE))
    /\ \A s \in 0..100 :
         /\ RiskLevelJson(s) = Classify(s).level
         /\ ExitCode(s) = Classify(s).code

\* a scan whose score is exactly the threshold of high, printed as JSON
C2_Witness ==
  /\ ScanCompleted
  /\ risk_score = 30
  /\ output.format = "json"
  /\ output.risk_level = "high"
  /\ exit_code = 3

\* C7: a run that ends without a text to scan exits with a status that is
\* none of the risk-level exit codes 0..4.
C7_AcquisitionFailureExitDistinct ==
  AcquisitionFailed => exit_code \notin 0..4

\* C8: text_preview is the original text when it has at most 200
\* characters, and otherwise its first 200 characters followed by '...'.
C8_TextPreview ==
  output.format = "json" =>
    LET preview == output.text_preview
    IN  IF Len(text) <= 200 THEN preview = text
        ELSE /\ Len(preview) = 203
             /\ \A i \in 1..200 : preview[i] = text[i]
             /\ \A i \in 201..203 : preview[i] = "."

\* a mixed-case text of exactly 200 characters, printed as JSON
C8_Witness ==
  /\ output.format = "json"
  /\ Len(text) = 200
  /\ \E i \in DOMAIN text : IsUpper(text[i])
  /\ output.text_preview = text

Count(fs, severities) ==
  Cardinality({i \in DOMAIN fs : fs[i].severity \in severities})

\* the weighted sum of a findings list, by counting each severity
WeightedTotal(fs) ==
  5 * Count(fs, {"low"}) + 15 * Count(fs, {"medium"})
    + 30 * Count(fs, {"high"}) + 50 * Count(fs, {"critical"})
    + 10 * Count(fs, Severities \ {"low", "medium", "high", "critical"})

\* C3: risk_score is min(100, sum of the findings' weights), low 5,
\* medium 15, high 30, critical 50 and 10 for any other severity; it lies
\* in 0..100 and is 0 when there are no findings.
C3_ScoreIsCappedWeightedSum ==
  /\ risk_score = IF WeightedTotal(findings) > 100 THEN 100
                  ELSE WeightedTotal(findings)
  /\ risk_score \in 0..100
  /\ findings = <<>> => risk_score = 0

\* an unknown severity among findings whose weights sum to 60
C3_Witness ==
  /\ Len(findings) = 2
  /\ findings[1].severity = "critical"
  /\ findings[2].severity = "info"
  /\ risk_score = 60

\* C4: adding a finding of any severity to a findings list never lowers
\* the score, also when the score is already 100.
C4_AddingNeverDecreases ==
  \A severity \in Severities :
    RiskScore(Append(findings, Finding("", "", severity, <<>>))) >= risk_score

\* a list whose weights sum to more than 100, grown from a saturated one
C4_Witness ==
  /\ Len(findings) >= 3
  /\ risk_score = 100
  /\ WeightedTotal(SubSeq(findings, 1, Len(findings) - 1)) >= 100

\* the index in PATTERNS of the rule a finding came from
RuleIndex(f) == CHOOSE k \in DOMAIN PATTERNS : PATTERNS[k][1] = f.pattern

\* the spans are matches of the pattern, left to right, none overlapping
\* another, each the leftmost match after the one before it
LeftmostNonOverlapping(re, s, spans) ==
  /\ \A j \in DOMAIN spans :
       /\ spans[j].start < spans[j].end
       /\ MatchSeq(re.tree, 1, s, spans[j].start) # <<>>
       /\ Head(MatchSeq(re.tree, 1, s, spans[j].start)) = spans[j].end
       /\ \A i \in (IF j = 1 THEN 1 ELSE spans[j - 1].end)..(spans[j].start - 1) :
            MatchSeq(re.tree, 1, s, i) = <<>>
  /\ \A i \in (IF spans = <<>> THEN 1 ELSE spans[Len(spans)].end)..(Len(s) + 1) :
       MatchSeq(re.tree, 1, s, i) = <<>>

CharsLower(s) == [i \in DOMAIN s |-> CharLower(s[i])]

\* C5: the findings scan_text returns are the concatenation, in the order
\* the rules are declared, of each rule's non-overlapping matches from left
\* to right: one finding per match, none dropped as a duplicate, and each
\* adding its weight to the score.
C5_FindingsInRuleThenOccurrenceOrder ==
  frames[1].pc = "done" =>
    LET fs == frames[1].findings
        s == CharsLower(frames[1].text)
        OfRule(k) == SelectSeq(fs, LAMBDA f : f.pattern = PATTERNS[k][1])
        Spans(k) == finditer(re_compile(PATTERNS[k][1]), s, 1)
    IN  /\ \A i, j \in DOMAIN fs :
             i < j => RuleIndex(fs[i]) <= RuleIndex(fs[j])
        /\ \A i \in DOMAIN fs : \E k \in DOMAIN PATTERNS :
             fs[i].pattern = PATTERNS[k][1]
        /\ \A k \in DOMAIN PATTERNS :
             /\ LeftmostNonOverlapping(re_compile(PATTERNS[k][1]), s, Spans(k))
             /\ Len(OfRule(k)) = Len(Spans(k))
             /\ \A j \in DOMAIN Spans(k) :
                  OfRule(k)[j] = Finding(PATTERNS[k][1], PATTERNS[k][2],
                                         PATTERNS[k][3], Group0(s, Spans(k)[j]))
        /\ frames[1].risk_score = IF WeightedTotal(fs) > 100 THEN 100
                                  ELSE WeightedTotal(fs)

\* "DAN<System>": the tag rule is declared before the jailbreak rule, and
\* its match comes later in the text
C5_Witness ==
  /\ frames[1].pc = "done"
  /\ frames[1].text = Frags[1] \o Frags[3]
  /\ Len(frames[1].findings) = 2
  /\ frames[1].findings[1].matched = CharsLower(Frags[3])
  /\ frames[1].findings[2].matched = CharsLower(Frags[1])

IsSubstring(m, s) ==
  \E a \in 1..(Len(s) - Len(m) + 1) : SubSeq(s, a, a + Len(m) - 1) = m

ValidLibraries ==
  {lib \in Libraries : \A k \in DOMAIN lib : ~re_compile(lib[k][1]).error}

\* what a text yields when it is scanned alone
ScannedAlone ==
  [lib \in ValidLibraries, c \in Callers |-> scan_text(lib, TextOf(c))]

\* C10: no scan changes PATTERNS, and however the scans of independent
\* callers interleave, each returns the findings and risk_score its text
\* yields when scanned alone.
C10_ScansAreIndependent ==
  /\ [][patterns' = patterns]_vars
  /\ [](\A c \in Callers :
          frames[c].pc = "done" =>
            /\ frames[c].findings = ScannedAlone[patterns, c].findings
            /\ frames[c].risk_score = ScannedAlone[patterns, c].risk_score)

\* two callers have returned, each with findings of its own text
C10_Witness ==
  /\ frames[1].pc = "done"
  /\ frames[2].pc = "done"
  /\ Len(frames[1].findings) = 2
  /\ Len(frames[2].findings) = 2
  /\ frames[1].findings # frames[2].findings

\* C6: with a rule whose pattern is not a valid regular expression in the
\* table, no scan is accepted: every caller is still where it was before
\* calling scan_text.
C6_MalformedRuleRejectedBeforeScan ==
  (\E k \in DOMAIN patterns : re_compile(patterns[k][1]).error) =>
    \A c \in Callers : frames[c].pc = "idle"

=============================================================================
